---- MODULE Spec2Model ----
(***************************************************************************)
(* Model of hugtug (src/main.rs): the RepoId value type and its three      *)
(* constructors, HfFetcher::fetch_manifest, and HfFetcher::download_model  *)
(* with the BufWriter that sits between io::copy and the destination file. *)
(* Strings are sequences of one-character strings.                         *)
(***************************************************************************)
EXTENDS Integers, Sequences, FiniteSets, TLC

VARIABLES fn, arg1, arg2, form, ret, resp, mret,
          pc, opened, dres, dest, reqs, headResp, modelSize, body, rpos,
          chunk, buf, progress, fail

repoVars == <<fn, arg1, arg2, form, ret, resp, mret>>
dlVars == <<pc, opened, dres, dest, reqs, headResp, modelSize, body, rpos,
            chunk, buf, progress, fail>>
vars == <<fn, arg1, arg2, form, ret, resp, mret,
          pc, opened, dres, dest, reqs, headResp, modelSize, body, rpos,
          chunk, buf, progress, fail>>

(* ---------------------------- bounds ----------------------------------- *)
\* longest string handed to RepoId::parse
MaxLen == 4
\* longest owner / name handed to RepoId::new
MaxSeg == 2
\* longest URL path handed to repo_id_from_url
MaxPathLen == 6
\* most entries in a metadata response
MaxFiles == 3
\* longest GET body
MaxBody == 4
\* largest content-length a HEAD response declares
MaxSize == 4
\* std's DEFAULT_BUF_SIZE (8 KiB), scaled down: the capacity of the
\* BufWriter and the size of io::copy's stack buffer
DefaultBufSize == 2

Chars == {"a", "b", "/"}
FileNames == {"f", "g"}

StrUpTo(n) == UNION {[1..k -> Chars] : k \in 0..n}
Min(a, b) == IF a < b THEN a ELSE b
Tail2(s, n) == SubSeq(s, n + 1, Len(s))
HasSlash(s) == \E i \in 1..Len(s) : s[i] = "/"

Ok(v) == [ok |-> TRUE, val |-> v, err |-> "none"]
Err(e) == [ok |-> FALSE, val |-> <<>>, err |-> e]
None == [ok |-> FALSE, val |-> <<>>, err |-> "unset"]

(* ---------------------------- RepoId ----------------------------------- *)
\* str::split_once('/'): the parts before and after the first '/', if any
SplitOnceWhole(s) == [found |-> TRUE, org |-> s, repo |-> <<>>]
SplitOnce(s) ==
  IF ~HasSlash(s) THEN [found |-> FALSE, org |-> <<>>, repo |-> <<>>]
  ELSE LET i == CHOOSE i \in 1..Len(s) :
                  s[i] = "/" /\ \A j \in 1..(i - 1) : s[j] # "/"
       IN [found |-> TRUE, org |-> SubSeq(s, 1, i - 1), repo |-> Tail2(s, i)]

\* RepoId(String): a one-field tuple struct
RepoId_new_swapped(org, repo) == <<repo \o <<"/">> \o org>>
RepoId_new(org, repo) == <<org \o <<"/">> \o repo>>

RepoId_parse_lenient(input) ==
  LET p == SplitOnceWhole(input) IN Ok(RepoId_new(p.org, p.repo))
RepoId_parse(input) ==
  LET p == SplitOnce(input)
  IN IF ~p.found THEN Err("InvalidFormat") ELSE Ok(RepoId_new(p.org, p.repo))

\* RepoId::as_str and Display::fmt both render field 0
as_str(r) == r[1]
to_string(r) == r[1]

(* ------------------------ repo_id_from_url ----------------------------- *)
\* A URL input is its form and what follows the scheme and authority:
\*   "invalid"  Url::parse rejects it
\*   "special"  https://host followed by rest (empty or starting with '/')
\*   "opaque"   a cannot-be-a-base URL such as mailto:rest
UrlRests(f) ==
  IF f = "invalid" THEN {<<>>}
  ELSE IF f = "special"
       THEN {<<>>} \cup {s \in StrUpTo(MaxPathLen) : s # <<>> /\ s[1] = "/"}
       ELSE {s \in StrUpTo(MaxLen) : s = <<>> \/ s[1] # "/"}

\* Url::parse: a special URL with an empty path gets the path "/"
Url_parse(f, rest) ==
  IF f = "invalid" THEN Err("InvalidUrl")
  ELSE IF f = "special" /\ rest = <<>> THEN Ok(<<"/">>)
  ELSE Ok(rest)

RECURSIVE Split(_)
\* str::split('/')
Split(s) ==
  IF ~HasSlash(s) THEN <<s>>
  ELSE LET p == SplitOnce(s) IN <<p.org>> \o Split(p.repo)

\* Url::path_segments: None unless the path starts with '/'
path_segments(path) ==
  IF path # <<>> /\ path[1] = "/" THEN Ok(Split(Tail2(path, 1)))
  ELSE Err("NoPathDetected")

from_url_last_two(f, rest) ==
  LET parsed == Url_parse(f, rest)
  IN IF ~parsed.ok THEN parsed
     ELSE LET segs == path_segments(parsed.val)
          IN IF ~segs.ok THEN segs
             ELSE IF Len(segs.val) < 2 THEN Err("InsufficientPathSegments")
             ELSE Ok(RepoId_new(segs.val[Len(segs.val) - 1],
                                segs.val[Len(segs.val)]))
from_url_one_segment(f, rest) ==
  LET parsed == Url_parse(f, rest)
  IN IF ~parsed.ok THEN parsed
     ELSE LET segs == path_segments(parsed.val)
          IN IF ~segs.ok THEN segs
             ELSE IF Len(segs.val) < 1 THEN Err("InsufficientPathSegments")
             ELSE Ok(RepoId_new(segs.val[1],
                                IF Len(segs.val) < 2 THEN <<>>
                                ELSE segs.val[2]))
repo_id_from_url(f, rest) ==
  LET parsed == Url_parse(f, rest)
  IN IF ~parsed.ok THEN parsed
     ELSE LET segs == path_segments(parsed.val)
          IN IF ~segs.ok THEN segs
             ELSE IF Len(segs.val) < 2 THEN Err("InsufficientPathSegments")
             ELSE Ok(RepoId_new(segs.val[1], segs.val[2]))

(* -------------------------- fetch_manifest ----------------------------- *)
\* a metadata response: transport failure, undecodable body, or siblings
Responses ==
  {[status |-> "neterr", siblings |-> <<>>],
   [status |-> "badjson", siblings |-> <<>>]}
  \cup {[status |-> "ok", siblings |-> s] :
          s \in UNION {[1..k -> [rfilename : FileNames]] : k \in 0..MaxFiles}}

RECURSIVE Dedup(_)
Dedup(s) ==
  IF s = <<>> THEN <<>>
  ELSE LET r == Dedup(SubSeq(s, 1, Len(s) - 1))
       IN IF \E i \in 1..Len(r) : r[i] = s[Len(s)] THEN r
          ELSE Append(r, s[Len(s)])

\* siblings.into_iter().map(|s| s.rfilename).collect()
ManifestFiles_dedup(siblings) ==
  Dedup([i \in 1..Len(siblings) |-> siblings[i].rfilename])
ManifestFiles(siblings) == [i \in 1..Len(siblings) |-> siblings[i].rfilename]

fetch_manifest(r) ==
  IF r.status = "neterr" THEN Err("NetworkError")
  ELSE IF r.status = "badjson" THEN Err("DecodeError")
  ELSE Ok(ManifestFiles(r.siblings))

(* ---------------- state machine: identifiers and manifest -------------- *)
RepoIdle ==
  /\ fn = "none" /\ arg1 = <<>> /\ arg2 = <<>> /\ form = "none"
  /\ ret = None /\ resp = [status |-> "none", siblings |-> <<>>]
  /\ mret = None

DownloadIdle ==
  /\ pc = "idle" /\ opened = "no" /\ dres = "none" /\ dest = <<>>
  /\ reqs = <<>> /\ headResp = [cl |-> "unsent", n |-> 0] /\ modelSize = 0
  /\ body = <<>> /\ rpos = 0 /\ chunk = <<>> /\ buf = <<>> /\ progress = 0
  /\ fail = [kind |-> "none", disk |-> 0, written |-> 0]

Init == RepoIdle /\ DownloadIdle

\* RepoId::new(org, repo)
CallNew ==
  /\ fn = "none"
  /\ \E o \in StrUpTo(MaxSeg), r \in StrUpTo(MaxSeg) :
       /\ fn' = "new" /\ arg1' = o /\ arg2' = r
       /\ ret' = Ok(RepoId_new(o, r))
  /\ UNCHANGED <<form, resp, mret>>
  /\ UNCHANGED dlVars

\* RepoId::parse(input), also reached through FromStr by the CLI
CallParse ==
  /\ fn = "none"
  /\ \E s \in StrUpTo(MaxLen) :
       /\ fn' = "parse" /\ arg1' = s
       /\ ret' = RepoId_parse(s)
  /\ UNCHANGED <<arg2, form, resp, mret>>
  /\ UNCHANGED dlVars

\* repo_id_from_url(url)
CallFromUrl ==
  /\ fn = "none"
  /\ \E f \in {"invalid", "special", "opaque"} : \E rest \in UrlRests(f) :
       /\ fn' = "from_url" /\ form' = f /\ arg1' = rest
       /\ ret' = repo_id_from_url(f, rest)
  /\ UNCHANGED <<arg2, resp, mret>>
  /\ UNCHANGED dlVars

\* HfFetcher::fetch_manifest(repo) against one response of the endpoint
FetchManifest ==
  /\ ret.ok /\ resp.status = "none"
  /\ \E r \in Responses :
       /\ resp' = r
       /\ mret' = fetch_manifest(r)
  /\ UNCHANGED <<fn, arg1, arg2, form, ret>>
  /\ UNCHANGED dlVars

Next == CallParse \/ CallFromUrl \/ CallNew \/ FetchManifest

Spec == Init /\ [][Next]_vars

(* ------------------------- claims: identifiers ------------------------- *)
NoSlashIn(s, lo, hi) == \A j \in lo..hi : s[j] # "/"
SlashCount(s) == Cardinality({i \in 1..Len(s) : s[i] = "/"})

\* C5: a decoded metadata response yields a manifest of the same length whose
\* i-th file is the i-th entry's filename (order kept, nothing added, removed,
\* deduplicated, sorted or filtered).
C5_ManifestPreservesEntries ==
  resp.status = "ok" =>
    /\ mret.ok
    /\ Len(mret.val) = Len(resp.siblings)
    /\ \A i \in 1..Len(resp.siblings) : mret.val[i] = resp.siblings[i].rfilename

C5_Witness ==
  /\ resp.status = "ok" /\ mret.ok
  /\ mret.val = <<"g", "f", "g">>

\* C6 (as stated): every RepoId produced by new, parse or from_url renders as
\* exactly two non-empty segments joined by a single '/'.
C6_TwoNonEmptySegments ==
  (fn \in {"new", "parse", "from_url"} /\ ret.ok) =>
    LET s == to_string(ret.val)
    IN /\ SlashCount(s) = 1
       /\ s[1] # "/"
       /\ s[Len(s)] # "/"

\* C7: for non-empty owner and name without '/', parse(owner + "/" + name)
\* succeeds and renders as owner + "/" + name.
C7_ParseRoundTrip ==
  fn = "parse" =>
    \A i \in 2..(Len(arg1) - 1) :
      LET owner == SubSeq(arg1, 1, i - 1)
          name == SubSeq(arg1, i + 1, Len(arg1))
      IN (arg1[i] = "/" /\ NoSlashIn(arg1, 1, i - 1)
            /\ NoSlashIn(arg1, i + 1, Len(arg1)))
         => /\ ret.ok
            /\ to_string(ret.val) = owner \o <<"/">> \o name
            /\ as_str(ret.val) = arg1

C7_Witness ==
  /\ fn = "parse" /\ arg1 = <<"a", "b", "/", "b">>
  /\ ret.ok /\ to_string(ret.val) = <<"a", "b", "/", "b">>

\* C8: from_url on a URL whose path is /s1/s2 or /s1/s2/... yields the
\* identifier built from s1 and s2; further segments are discarded.
C8_FirstTwoSegments ==
  (fn = "from_url" /\ form = "special") =>
    \A i \in 2..Len(arg1) : \A j \in (i + 1)..(Len(arg1) + 1) :
      (/\ arg1[1] = "/" /\ arg1[i] = "/"
       /\ NoSlashIn(arg1, 2, i - 1)
       /\ NoSlashIn(arg1, i + 1, j - 1)
       /\ (j = Len(arg1) + 1 \/ arg1[j] = "/"))
      => /\ ret.ok
         /\ ret.val = RepoId_new(SubSeq(arg1, 2, i - 1), SubSeq(arg1, i + 1, j - 1))

C8_Witness ==
  /\ fn = "from_url" /\ form = "special"
  /\ arg1 = <<"/", "a", "/", "b", "/", "a">>
  /\ ret.ok /\ to_string(ret.val) = <<"a", "/", "b">>

\* the URL's path has fewer than two segments: a hierarchical path with no
\* '/' after the leading one, or a cannot-be-a-base URL (no segments at all)
FewerThanTwoSegments ==
  \/ form = "opaque"
  \/ form = "special" /\ NoSlashIn(arg1, 2, Len(arg1))

\* C9 (as stated): from_url fails with InsufficientPathSegments for every
\* parsable URL whose path has fewer than two segments.
C9_InsufficientForEveryShortUrl ==
  (fn = "from_url" /\ FewerThanTwoSegments) =>
    ~ret.ok /\ ret.err = "InsufficientPathSegments"

\* C9 (amended): for every parsable URL with fewer than two path segments
\* from_url produces no RepoId; the error is InsufficientPathSegments when
\* the URL has a hierarchical path (https://host, https://host/x), and
\* "No path detected" when the URL cannot be a base (mailto:x).
C9_ShortUrlFails ==
  (fn = "from_url" /\ FewerThanTwoSegments) =>
    /\ ~ret.ok /\ ret.val = <<>>
    /\ form = "special" => ret.err = "InsufficientPathSegments"
    /\ form = "opaque" => ret.err = "NoPathDetected"

C9_Witness ==
  /\ fn = "from_url" /\ form = "special" /\ arg1 = <<>>
  /\ ~ret.ok /\ ret.err = "InsufficientPathSegments"

\* C10: parse fails with InvalidFormat on every input without '/', and
\* produces no RepoId.
C10_ParseRejectsNoSlash ==
  (fn = "parse" /\ NoSlashIn(arg1, 1, Len(arg1))) =>
    ~ret.ok /\ ret.err = "InvalidFormat" /\ ret.val = <<>>

C10_Witness ==
  /\ fn = "parse" /\ arg1 = <<"a", "b">>
  /\ ~ret.ok /\ ret.err = "InvalidFormat"

(* --------------------------- download_model ---------------------------- *)
\* the GET body: its bytes are numbered so that content can be compared
Body(n) == [i \in 1..n |-> i]

\* File::write(data): takes a non-empty prefix of data, or fails
File_write(d, data) ==
  {[ok |-> TRUE, n |-> j, dest |-> d \o SubSeq(data, 1, j)] : j \in 1..Len(data)}
  \cup {[ok |-> FALSE, n |-> 0, dest |-> d]}

\* BufWriter::flush_buf: writes the buffer out; on an error the bytes already
\* written leave the buffer and the rest stay in it
flush_buf(b, d) ==
  {[ok |-> (k = Len(b)), buf |-> Tail2(b, k), dest |-> d \o SubSeq(b, 1, k)] :
     k \in 0..Len(b)}

\* BufWriter::write / write_cold
BufWriter_write(b, d, data) ==
  IF Len(data) < DefaultBufSize - Len(b)
  THEN {[ok |-> TRUE, n |-> Len(data), buf |-> b \o data, dest |-> d]}
  ELSE LET flushed == IF Len(data) > DefaultBufSize - Len(b)
                      THEN flush_buf(b, d)
                      ELSE {[ok |-> TRUE, buf |-> b, dest |-> d]}
       IN UNION {
            IF ~f.ok
            THEN {[ok |-> FALSE, n |-> 0, buf |-> f.buf, dest |-> f.dest]}
            ELSE IF Len(data) >= DefaultBufSize
            THEN {[ok |-> w.ok, n |-> w.n, buf |-> f.buf, dest |-> w.dest] :
                    w \in File_write(f.dest, data)}
            ELSE {[ok |-> TRUE, n |-> Len(data), buf |-> f.buf \o data,
                   dest |-> f.dest]}
            : f \in flushed}

\* Drop for BufWriter: flush_buf with its result thrown away
BufWriter_drop_truncating(b, d) == {<<>>}
BufWriter_drop(b, d) == {f.dest : f \in flush_buf(b, d)}

HasGet == \E i \in 1..Len(reqs) : reqs[i] = "GET"
HasHead == \E i \in 1..Len(reqs) : reqs[i] = "HEAD"
NoFail == [kind |-> "none", disk |-> 0, written |-> 0]

\* download_model is called; the destination may already hold a file
DownloadInit ==
  /\ RepoIdle
  /\ pc = "create" /\ opened = "no" /\ dres = "none"
  /\ dest \in {<<>>, <<9, 9>>}
  /\ reqs = <<>> /\ headResp = [cl |-> "unsent", n |-> 0] /\ modelSize = 0
  /\ body = <<>> /\ rpos = 0 /\ chunk = <<>> /\ buf = <<>> /\ progress = 0
  /\ fail = NoFail

\* File::create(model)?; BufWriter::new(file)
CreateFile_unchecked ==
  /\ pc = "create"
  /\ \E ok \in BOOLEAN :
       /\ opened' = IF ok THEN "ok" ELSE "failed"
       /\ dest' = IF ok THEN <<>> ELSE dest
       /\ pc' = "head"
       /\ dres' = dres
  /\ UNCHANGED <<reqs, headResp, modelSize, body, rpos, chunk, buf, progress, fail>>
  /\ UNCHANGED repoVars
CreateFile ==
  /\ pc = "create"
  /\ \E ok \in BOOLEAN :
       IF ok
       THEN /\ opened' = "ok" /\ dest' = <<>> /\ pc' = "head" /\ dres' = dres
       ELSE /\ opened' = "failed" /\ dest' = dest /\ pc' = "done"
            /\ dres' = "IoError"
  /\ UNCHANGED <<reqs, headResp, modelSize, body, rpos, chunk, buf, progress, fail>>
  /\ UNCHANGED repoVars

\* c.request(Method::HEAD, &resolve_url).send()?
SendHead ==
  /\ pc = "head"
  /\ reqs' = Append(reqs, "HEAD")
  /\ \/ /\ dres' = "NetworkError" /\ pc' = "drop" /\ headResp' = headResp
     \/ /\ \E h \in {[cl |-> "absent", n |-> 0], [cl |-> "garbled", n |-> 0]}
                \cup {[cl |-> "num", n |-> k] : k \in 0..MaxSize} :
             headResp' = h
        /\ pc' = "length" /\ dres' = dres
  /\ UNCHANGED <<opened, dest, modelSize, body, rpos, chunk, buf, progress, fail>>
  /\ UNCHANGED repoVars

\* headers().get(CONTENT_LENGTH).ok_or(..)?.to_str()?.parse::<u64>()?
ReadContentLength_default_zero ==
  /\ pc = "length"
  /\ IF headResp.cl = "garbled"
     THEN /\ dres' = "DecodeError" /\ pc' = "drop" /\ modelSize' = modelSize
     ELSE /\ modelSize' = headResp.n /\ pc' = "progress" /\ dres' = dres
  /\ UNCHANGED <<opened, dest, reqs, headResp, body, rpos, chunk, buf, progress, fail>>
  /\ UNCHANGED repoVars
ReadContentLength ==
  /\ pc = "length"
  /\ IF headResp.cl = "absent"
     THEN /\ dres' = "MissingContentLength" /\ pc' = "drop"
          /\ modelSize' = modelSize
     ELSE IF headResp.cl = "garbled"
     THEN /\ dres' = "DecodeError" /\ pc' = "drop" /\ modelSize' = modelSize
     ELSE /\ modelSize' = headResp.n /\ pc' = "progress" /\ dres' = dres
  /\ UNCHANGED <<opened, dest, reqs, headResp, body, rpos, chunk, buf, progress, fail>>
  /\ UNCHANGED repoVars

\* println!(size); ProgressBar::new(model_size) with a constant template
NewProgress ==
  /\ pc = "progress"
  /\ progress' = 0
  /\ pc' = "get"
  /\ UNCHANGED <<opened, dres, dest, reqs, headResp, modelSize, body, rpos, chunk, buf, fail>>
  /\ UNCHANGED repoVars

\* c.request(Method::GET, resolve_url).send()?
SendGet ==
  /\ pc = "get"
  /\ reqs' = Append(reqs, "GET")
  /\ \/ /\ dres' = "NetworkError" /\ pc' = "drop" /\ body' = body
     \/ /\ \E n \in 0..MaxBody : body' = Body(n)
        /\ pc' = "read" /\ dres' = dres
  /\ UNCHANGED <<opened, dest, headResp, modelSize, rpos, chunk, buf, progress, fail>>
  /\ UNCHANGED repoVars

\* io::copy, reading: up to DefaultBufSize bytes, end of stream, or an error
CopyRead ==
  /\ pc = "read"
  /\ \/ /\ rpos < Len(body)
        /\ \E k \in 1..Min(DefaultBufSize, Len(body) - rpos) :
             /\ chunk' = SubSeq(body, rpos + 1, rpos + k)
             /\ rpos' = rpos + k
        /\ pc' = "write" /\ dres' = dres /\ fail' = fail
     \/ /\ rpos = Len(body)
        /\ dres' = "Ok" /\ pc' = "drop"
        /\ UNCHANGED <<chunk, rpos, fail>>
     \/ /\ dres' = "TransferError" /\ pc' = "drop"
        /\ fail' = [kind |-> "read", disk |-> Len(dest), written |-> progress]
        /\ UNCHANGED <<chunk, rpos>>
  /\ UNCHANGED <<opened, dest, reqs, headResp, modelSize, body, buf, progress>>
  /\ UNCHANGED repoVars

\* io::copy, write_all through progress.wrap_write: one write call on what is
\* left of the chunk; the bar advances by what the BufWriter accepted
CopyWrite ==
  /\ pc = "write"
  /\ \E o \in BufWriter_write(buf, dest, chunk) :
       /\ buf' = o.buf /\ dest' = o.dest
       /\ IF o.ok
          THEN /\ progress' = progress + o.n
               /\ chunk' = Tail2(chunk, o.n)
               /\ pc' = IF o.n = Len(chunk) THEN "read" ELSE "write"
               /\ dres' = dres /\ fail' = fail
          ELSE /\ dres' = "TransferError" /\ pc' = "drop"
               /\ fail' = [kind |-> "write", disk |-> Len(o.dest),
                           written |-> progress]
               /\ UNCHANGED <<progress, chunk>>
  /\ UNCHANGED <<opened, reqs, headResp, modelSize, body, rpos>>
  /\ UNCHANGED repoVars

\* the function returns (Ok(()) or an early `?`): writer goes out of scope
DropWriter ==
  /\ pc = "drop"
  /\ \E d \in BufWriter_drop(buf, dest) : dest' = d
  /\ buf' = <<>>
  /\ pc' = "done"
  /\ UNCHANGED <<opened, dres, reqs, headResp, modelSize, body, rpos, chunk, progress, fail>>
  /\ UNCHANGED repoVars

DownloadNext ==
  \/ CreateFile \/ SendHead \/ ReadContentLength \/ NewProgress
  \/ SendGet \/ CopyRead \/ CopyWrite \/ DropWriter

SpecDownload == DownloadInit /\ [][DownloadNext]_vars

(* -------------------------- claims: download --------------------------- *)
IsPrefix(s, full) == Len(s) <= Len(full) /\ s = SubSeq(full, 1, Len(s))
CopyFailed == fail.kind # "none"

\* C1: the destination is opened before any network request; when opening it
\* fails the operation ends with IoError and neither HEAD nor GET was issued.
C1_OpenFailsBeforeNetwork ==
  /\ opened = "failed" =>
       (pc = "done" /\ dres = "IoError" /\ ~HasHead /\ ~HasGet)
  /\ reqs # <<>> => opened = "ok"

C1_Witness ==
  /\ pc = "done" /\ opened = "failed" /\ dres = "IoError"
  /\ dest = <<9, 9>>

\* C2: a HEAD response without content-length ends the download with
\* MissingContentLength, and no GET is issued.
C2_MissingLengthNoGet ==
  headResp.cl = "absent" =>
    /\ ~HasGet
    /\ pc \in {"length", "drop", "done"}
    /\ pc \in {"drop", "done"} => dres = "MissingContentLength"

C2_Witness ==
  /\ pc = "done" /\ headResp.cl = "absent"
  /\ dres = "MissingContentLength" /\ reqs = <<"HEAD">>

\* C3 (as stated): when download returns success the destination holds as
\* many bytes as the GET body, and during the copy the progress reported
\* never exceeds the total declared by the HEAD content-length.
C3_SuccessWritesAllWithinTotal ==
  /\ (pc = "done" /\ dres = "Ok") => Len(dest) = Len(body)
  /\ HasGet => progress <= modelSize

\* C4 (as stated): after a read or write error during the copy the operation
\* returns an error and the destination holds exactly the bytes the copy had
\* written before the failure.
C4_PartialExactlyWritten ==
  (pc = "done" /\ CopyFailed) =>
    /\ dres # "Ok"
    /\ dest = SubSeq(body, 1, fail.written)

\* C4 (amended): after a read or write error during the copy the operation
\* returns an error, and the destination holds a prefix of the stream that
\* keeps every byte that had reached the file before the failure and has at
\* most the bytes the copy had written before it.
C4_PartialKept ==
  (pc \in {"drop", "done"} /\ CopyFailed) =>
    /\ dres = "TransferError"
    /\ opened = "ok"
    /\ IsPrefix(dest, body)
    /\ Len(dest) >= fail.disk
    /\ Len(dest) <= fail.written

C4_Witness ==
  /\ pc = "done" /\ CopyFailed /\ dres = "TransferError"
  /\ fail.disk >= 1 /\ Len(dest) = fail.disk
  /\ Len(dest) < fail.written

====
